---- MODULE Spec2Model ----
(***************************************************************************)
(* vue-tsc program factory (packages/vue-tsc/src/index.ts).                *)
(*                                                                         *)
(* createProgram validates the compile options, then resumes the program   *)
(* of the process-wide hook slot, creates a program context or reuses the  *)
(* prior program (bumping projectVersion), starts the next configured hook *)
(* (aborting with 'hook') or materialises the root files and returns the   *)
(* program.  Each context owns a script cache read through                 *)
(* getScriptSnapshot.  Only the calls into src/index.ts are modelled: the  *)
(* engine behind createLanguageService and the file system are the         *)
(* environment.                                                            *)
(*                                                                         *)
(* Optional values (T | undefined) are sequences: <<>> is undefined and    *)
(* <<x>> is the value x.                                                   *)
(***************************************************************************)
EXTENDS Integers, Sequences, FiniteSets, TLC

\* ------------------------------------------------------------------ bounds
MaxHooks == 2    \* longest vueCompilerOptions.hooks list
MaxVersion == 2    \* reuse calls stop bumping projectVersion here
MaxTime == 1    \* modification times are 0..MaxTime

Undefined == <<>>
Some(x)   == <<x>>

\* Two program objects: the one a hook chain works on and one other.
ProgIds  == {1, 2}
Files    == {"a.vue", "b.ts"}
\* The texts a file can hold: one to begin with, one to be rewritten to.
Contents == {"<template>a</template>", "<template>b</template>"}
Times    == 0..MaxTime

\* ------------------------------------------------- the messages of toThrow
JsEmitMsg       == "js emit is not supported"
NoEmitOnErrMsg  == "noEmitOnError is not supported"
\* The first clause of the message of line 30; the advice after it is left out.
ExtDiagMsg      == "--extendedDiagnostics / --generateTrace is not supported"
NoHostMsg       == "!options.host"
HookSignal      == "hook"
Returned        == "return program"

\* --------------------------------------------------------------- the state
VARIABLES
    ctx,        \* program id -> its ProgramContext (program.__vue); DOMAIN = programs created
    scripts,    \* program id -> the Map `scripts` of its context (file name -> entry)
    state,      \* the process-wide record of ./shared: [hook |-> Undefined or Some(hook)]
    files,      \* the file system as the host and ts.sys see it
    op,         \* the last call into the module, the world it saw and what it gave back
    started,    \* program id -> [highest: the highest hook index started on it (-1: none),
                \*                again: TRUE once a hook index was started a second time]
    aborts,     \* program id -> the createProgram calls on it that ended with 'hook'
                \*               before it was first returned (saturating at MaxHooks + 1)
    returned,   \* program id -> TRUE once a createProgram call has returned it
    given       \* the options the caller has at hand (SpecOptions draws them from all)

vars == <<ctx, scripts, state, files, op, started, aborts, returned, given>>

Sat(n, cap) == IF n < cap THEN n + 1 ELSE cap

\* ------------------------------------------------------------ the options
\* ts.CompilerOptions: the five settings createProgram reads.
CompilerOptions ==
    [noEmit: BOOLEAN, emitDeclarationOnly: BOOLEAN, noEmitOnError: BOOLEAN,
     extendedDiagnostics: BOOLEAN, generateTrace: BOOLEAN]

RootNames == {<<"a.vue">>, <<"a.vue", "b.ts">>}

\* ts.CompilerHost: what the language host reads of it.  getCurrentDirectory
\* is the directory it answers, the sequence of its characters;
\* getCancellationToken is optional, given here by the token it answers.
PosixHost == [getCurrentDirectory |-> <<"/", "p">>,
              getCancellationToken |-> Some("token")]
WindowsHost == [getCurrentDirectory |-> <<"C", ":", "\\", "p", "\\", "q">>,
                getCancellationToken |-> Undefined]
Hosts == {PosixHost, WindowsHost}

ProjectReferences == {Undefined, Some(<<"../lib">>)}

\* ts.CreateProgramOptions: host is optional.  options.oldProgram is read
\* once, at line 35, and never through the stored options: it is passed
\* beside the record, Undefined or Some(program id).
CreateProgramOptions ==
    [rootNames: RootNames, options: CompilerOptions,
     host: {Undefined, Some(PosixHost)}, projectReferences: {Undefined}]

OldPrograms == {Undefined} \cup {Some(p) : p \in ProgIds}

\* The validation without the noEmitOnError check of lines 26-27.
rejectionNoEmitOnErrorCheck(options) ==
    IF ~options.options.noEmit /\ ~options.options.emitDeclarationOnly
    THEN Some(JsEmitMsg)
    ELSE IF options.options.extendedDiagnostics \/ options.options.generateTrace
    THEN Some(ExtDiagMsg)
    ELSE IF options.host = Undefined
    THEN Some(NoHostMsg)
    ELSE Undefined

\* The validation without the js emit check of lines 23-24.
rejectionNoJsEmit(options) ==
    IF ~options.options.noEmit /\ options.options.noEmitOnError
    THEN Some(NoEmitOnErrMsg)
    ELSE IF options.options.extendedDiagnostics \/ options.options.generateTrace
    THEN Some(ExtDiagMsg)
    ELSE IF options.host = Undefined
    THEN Some(NoHostMsg)
    ELSE Undefined

\* The validation with the host check before the diagnostics check.
rejectionHostFirst(options) ==
    IF ~options.options.noEmit /\ ~options.options.emitDeclarationOnly
    THEN Some(JsEmitMsg)
    ELSE IF ~options.options.noEmit /\ options.options.noEmitOnError
    THEN Some(NoEmitOnErrMsg)
    ELSE IF options.host = Undefined
    THEN Some(NoHostMsg)
    ELSE IF options.options.extendedDiagnostics \/ options.options.generateTrace
    THEN Some(ExtDiagMsg)
    ELSE Undefined

\* The validation at the head of createProgram: Undefined when the options
\* pass, else the message handed to toThrow.
rejection(options) ==
    IF ~options.options.noEmit /\ ~options.options.emitDeclarationOnly
    THEN Some(JsEmitMsg)
    ELSE IF ~options.options.noEmit /\ options.options.noEmitOnError
    THEN Some(NoEmitOnErrMsg)
    ELSE IF options.options.extendedDiagnostics \/ options.options.generateTrace
    THEN Some(ExtDiagMsg)
    ELSE IF options.host = Undefined
    THEN Some(NoHostMsg)
    ELSE Undefined

\* toThrow: logs the message and gives it back as the value to throw.
toThrow(msg) == [logged |-> Some(msg), thrown |-> msg]

\* Which of the three branches establishes the program: the hook slot wins,
\* then creation when no prior program was supplied, else reuse.
branchOldProgramFirst(hook, oldProgram) ==
    IF oldProgram # Undefined THEN "reuse"
    ELSE IF hook # Undefined THEN "resume"
    ELSE "create"

branch(hook, oldProgram) ==
    IF hook # Undefined THEN "resume"
    ELSE IF oldProgram = Undefined THEN "create"
    ELSE "reuse"

\* The index of the hook to run next, were it (state.hook?.index ?? -1) + 2.
nextIndexSkips(hook) == (IF hook = Undefined THEN -2 ELSE hook[1].index) + 2

\* The index of the hook to run next, were it state.hook?.index ?? -1.
nextIndexNoIncrement(hook) == IF hook = Undefined THEN -1 ELSE hook[1].index

\* The index of the hook to run next, were it state.hook?.index ?? 0.
nextIndexSame(hook) == IF hook = Undefined THEN 0 ELSE hook[1].index

\* The index of the hook to run next: (state.hook?.index ?? -1) + 1.
nextIndex(hook) == (IF hook = Undefined THEN -1 ELSE hook[1].index) + 1

\* getVueCompilerOptions: the hooks the configuration file declares
\* (Undefined when it declares none; the parse itself is the engine's).
HookLists == {Undefined} \cup {Some(n) : n \in 0..MaxHooks}

\* The program a creation call gets from the engine: the next unused id.
newProgram == Cardinality(DOMAIN ctx) + 1

\* Lines 35-178, were the resume branch to add one to projectVersion.
establishResumeBumps(options, oldProgram, parsedHooks) ==
    LET b == branch(state.hook, oldProgram) IN
    IF b = "create" THEN
        LET program == newProgram
            c == [projectVersion |-> 0,
                  options |-> options,
                  vueCompilerOptions |-> parsedHooks,
                  languageHost |->
                      [id |-> program,
                       getCancellationToken |->
                           options.host[1].getCancellationToken # Undefined],
                  languageService |-> [id |-> program]]
        IN
        [program |-> program,
         ctx |-> [q \in DOMAIN ctx \cup {program} |-> IF q = program THEN c ELSE ctx[q]],
         scripts |-> [q \in DOMAIN scripts \cup {program} |->
                         IF q = program THEN << >> ELSE scripts[q]],
         constructed |-> TRUE]
    ELSE
        LET program == IF b = "resume" THEN state.hook[1].program ELSE oldProgram[1] IN
        [program |-> program,
         ctx |-> [ctx EXCEPT ![program].options = options,
                             ![program].projectVersion = @ + 1],
         scripts |-> scripts,
         constructed |-> FALSE]

\* Lines 35-178, were the reuse branch to read the configuration again.
establishReuseReparses(options, oldProgram, parsedHooks) ==
    LET b == branch(state.hook, oldProgram) IN
    IF b = "resume" THEN
        LET program == state.hook[1].program IN
        [program |-> program,
         ctx |-> [ctx EXCEPT ![program].options = options],
         scripts |-> scripts,
         constructed |-> FALSE]
    ELSE IF b = "create" THEN
        LET program == newProgram
            c == [projectVersion |-> 0,
                  options |-> options,
                  vueCompilerOptions |-> parsedHooks,
                  languageHost |->
                      [id |-> program,
                       getCancellationToken |->
                           options.host[1].getCancellationToken # Undefined],
                  languageService |-> [id |-> program]]
        IN
        [program |-> program,
         ctx |-> [q \in DOMAIN ctx \cup {program} |-> IF q = program THEN c ELSE ctx[q]],
         scripts |-> [q \in DOMAIN scripts \cup {program} |->
                         IF q = program THEN << >> ELSE scripts[q]],
         constructed |-> TRUE]
    ELSE
        LET program == oldProgram[1] IN
        [program |-> program,
         ctx |-> [ctx EXCEPT ![program].options = options,
                             ![program].projectVersion = @ + 1,
                             ![program].vueCompilerOptions = parsedHooks],
         scripts |-> scripts,
         constructed |-> FALSE]

\* Lines 35-178: the program and the contexts after the branch taken.
\* [program, ctx, scripts, constructed].
establish(options, oldProgram, parsedHooks) ==
    LET b == branch(state.hook, oldProgram) IN
    IF b = "resume" THEN
        LET program == state.hook[1].program IN
        [program |-> program,
         ctx |-> [ctx EXCEPT ![program].options = options],
         scripts |-> scripts,
         constructed |-> FALSE]
    ELSE IF b = "create" THEN
        LET program == newProgram
            c == [projectVersion |-> 0,
                  options |-> options,
                  vueCompilerOptions |-> parsedHooks,
                  languageHost |->
                      [id |-> program,
                       getCancellationToken |->
                           options.host[1].getCancellationToken # Undefined],
                  languageService |-> [id |-> program]]
        IN
        [program |-> program,
         ctx |-> [q \in DOMAIN ctx \cup {program} |-> IF q = program THEN c ELSE ctx[q]],
         scripts |-> [q \in DOMAIN scripts \cup {program} |->
                         IF q = program THEN << >> ELSE scripts[q]],
         constructed |-> TRUE]
    ELSE
        LET program == oldProgram[1] IN
        [program |-> program,
         ctx |-> [ctx EXCEPT ![program].options = options,
                             ![program].projectVersion = @ + 1],
         scripts |-> scripts,
         constructed |-> FALSE]

Pending == state.hook # Undefined /\ state.hook[1].worker = "pending"

\* The caller's side of a call: it does not call while a hook is pending,
\* the prior program it supplies is one this factory made, a creation needs
\* a program id left, and a reuse a version left.
CanCall(options, oldProgram) ==
    /\ ~Pending
    /\ oldProgram # Undefined => oldProgram[1] \in DOMAIN ctx
    /\ rejection(options) = Undefined =>
        LET b == branch(state.hook, oldProgram) IN
        /\ b = "create" => DOMAIN ctx # ProgIds
        /\ b = "reuse" => ctx[oldProgram[1]].projectVersion < MaxVersion

\* The configuration file is parsed by a creation call only.
ParsedHooks(options, oldProgram) ==
    IF rejection(options) = Undefined /\ branch(state.hook, oldProgram) = "create"
    THEN HookLists
    ELSE {Undefined}

createProgram(options, oldProgram, parsedHooks) ==
    /\ UNCHANGED <<files, given>>
    /\ LET rej == rejection(options) IN
       IF rej # Undefined THEN
           /\ op' = [kind |-> "createProgram", oldProgram |-> oldProgram,
                     options |-> options,
                     lastStarted |-> -1,
                     logged |-> toThrow(rej[1]).logged,
                     result |-> toThrow(rej[1]).thrown,
                     program |-> Undefined, branch |-> "none",
                     constructed |-> FALSE, startedHook |-> Undefined,
                     firstReturn |-> FALSE, getSourceFile |-> << >>]
           /\ UNCHANGED <<ctx, scripts, state, started, aborts, returned>>
       ELSE
           LET e == establish(options, oldProgram, parsedHooks)
               program == e.program
               vueCompilerOptions == e.ctx[program].vueCompilerOptions
               index == nextIndex(state.hook)
               runHook == vueCompilerOptions # Undefined /\ index < vueCompilerOptions[1]
           IN
           /\ ctx' = e.ctx
           /\ scripts' = e.scripts
           /\ IF runHook THEN
                  /\ state' = [hook |-> Some([program |-> program, index |-> index,
                                              worker |-> "pending"])]
                  /\ started' = [started EXCEPT ![program] =
                                    [highest |-> IF index > @.highest THEN index ELSE @.highest,
                                     again |-> @.again \/ index <= @.highest]]
                  /\ aborts' = [aborts EXCEPT ![program] =
                                   IF returned[program] THEN @ ELSE Sat(@, MaxHooks + 1)]
                  /\ UNCHANGED returned
                  /\ op' = [kind |-> "createProgram", oldProgram |-> oldProgram,
                            options |-> options,
                            lastStarted |-> started[program].highest,
                            logged |-> Undefined, result |-> HookSignal,
                            program |-> Some(program),
                            branch |-> branch(state.hook, oldProgram),
                            constructed |-> e.constructed,
                            startedHook |-> Some(index),
                            firstReturn |-> FALSE, getSourceFile |-> << >>]
              ELSE
                  /\ UNCHANGED <<state, started, aborts>>
                  /\ returned' = [returned EXCEPT ![program] = TRUE]
                  /\ op' = [kind |-> "createProgram", oldProgram |-> oldProgram,
                            options |-> options,
                            lastStarted |-> started[program].highest,
                            logged |-> Undefined, result |-> Returned,
                            program |-> Some(program),
                            branch |-> branch(state.hook, oldProgram),
                            constructed |-> e.constructed,
                            startedHook |-> Undefined,
                            firstReturn |-> ~returned[program],
                            getSourceFile |-> options.rootNames]

\* The hook's promise (state.hook.worker) settles.
Settle ==
    /\ Pending
    /\ state' = [hook |-> Some([state.hook[1] EXCEPT !.worker = "settled"])]
    /\ UNCHANGED <<ctx, scripts, files, op, started, aborts, returned, given>>

\* The caller's re-entry: once the hook has completed and the re-invoked
\* createProgram has returned the program, the caller clears the slot.
ClearHook ==
    /\ state.hook # Undefined
    /\ state.hook[1].worker = "settled"
    /\ op.kind = "createProgram"
    /\ op.result = Returned
    /\ state' = [hook |-> Undefined]
    /\ UNCHANGED <<ctx, scripts, files, op, started, aborts, returned, given>>

\* ------------------------------------------------------- the script cache
\* A file of the file system: Undefined when it does not exist, else its
\* content and modification time.
FileStates == {Undefined} \cup {Some([content |-> c, mtime |-> t]) : c \in Contents, t \in Times}

\* ts.sys.getModifiedTime?.(fileName): Undefined for a file that is not there.
getModifiedTime(fileName) ==
    IF files[fileName] = Undefined THEN Undefined ELSE Some(files[fileName][1].mtime)

\* host.fileExists(fileName)
fileExists(fileName) == files[fileName] # Undefined

\* What host.readFile(fileName) can give: the content, undefined, or an exception.
ReadOk(text) == [kind |-> "content", text |-> text]
ReadUndefined == [kind |-> "undefined", text |-> ""]
ReadThrows == [kind |-> "throws", text |-> ""]
NotRead == [kind |-> "not called", text |-> ""]

readFileResults(fileName) ==
    (IF files[fileName] = Undefined THEN {} ELSE {ReadOk(files[fileName][1].content)})
        \cup {ReadUndefined, ReadThrows}

\* ts.ScriptSnapshot.fromString(fileContent): the snapshot holds the text.
fromString(fileContent) == [text |-> fileContent]

\* getScript without the version comparison of lines 149-152.
getScriptMtimeFirst(map, projectVersion, fileName, sysTime, exists, fileContent) ==
    LET script == IF fileName \in DOMAIN map THEN Some(map[fileName]) ELSE Undefined
        modifiedTime == IF sysTime = Undefined THEN 0 ELSE sysTime[1]
    IN
    IF script # Undefined /\ script[1].modifiedTime = modifiedTime
    THEN [ret |-> script, scripts |-> map, stat |-> TRUE, read |-> FALSE, threw |-> FALSE]
    ELSE IF exists
    THEN IF fileContent.kind = "throws"
         THEN [ret |-> Undefined, scripts |-> map, stat |-> TRUE, read |-> TRUE,
               threw |-> TRUE]
         ELSE IF fileContent.kind = "content"
         THEN LET new == [projectVersion |-> projectVersion,
                          modifiedTime |-> modifiedTime,
                          scriptSnapshot |-> fromString(fileContent.text),
                          version |-> fileContent.text]
              IN [ret |-> Some(new),
                  scripts |-> [f \in DOMAIN map \cup {fileName} |->
                                  IF f = fileName THEN new ELSE map[f]],
                  stat |-> TRUE, read |-> TRUE, threw |-> FALSE]
         ELSE [ret |-> Undefined, scripts |-> map, stat |-> TRUE, read |-> TRUE,
               threw |-> FALSE]
    ELSE [ret |-> Undefined, scripts |-> map, stat |-> TRUE, read |-> FALSE,
          threw |-> FALSE]

\* getScript without the modification-time comparison of lines 154-157.
getScriptVersionOnly(map, projectVersion, fileName, sysTime, exists, fileContent) ==
    LET script == IF fileName \in DOMAIN map THEN Some(map[fileName]) ELSE Undefined
        modifiedTime == IF sysTime = Undefined THEN 0 ELSE sysTime[1]
    IN
    IF script # Undefined /\ script[1].projectVersion = projectVersion
    THEN [ret |-> script, scripts |-> map, stat |-> FALSE, read |-> FALSE, threw |-> FALSE]
    ELSE IF exists
    THEN IF fileContent.kind = "throws"
         THEN [ret |-> Undefined, scripts |-> map, stat |-> TRUE, read |-> TRUE,
               threw |-> TRUE]
         ELSE IF fileContent.kind = "content"
         THEN LET new == [projectVersion |-> projectVersion,
                          modifiedTime |-> modifiedTime,
                          scriptSnapshot |-> fromString(fileContent.text),
                          version |-> fileContent.text]
              IN [ret |-> Some(new),
                  scripts |-> [f \in DOMAIN map \cup {fileName} |->
                                  IF f = fileName THEN new ELSE map[f]],
                  stat |-> TRUE, read |-> TRUE, threw |-> FALSE]
         ELSE [ret |-> Undefined, scripts |-> map, stat |-> TRUE, read |-> TRUE,
               threw |-> FALSE]
    ELSE [ret |-> Undefined, scripts |-> map, stat |-> TRUE, read |-> FALSE,
          threw |-> FALSE]

\* getScript without the scripts.set of line 168.
getScriptNoSet(map, projectVersion, fileName, sysTime, exists, fileContent) ==
    LET script == IF fileName \in DOMAIN map THEN Some(map[fileName]) ELSE Undefined
        modifiedTime == IF sysTime = Undefined THEN 0 ELSE sysTime[1]
    IN
    IF script # Undefined /\ script[1].projectVersion = projectVersion
    THEN [ret |-> script, scripts |-> map, stat |-> FALSE, read |-> FALSE, threw |-> FALSE]
    ELSE IF script # Undefined /\ script[1].modifiedTime = modifiedTime
    THEN [ret |-> script, scripts |-> map, stat |-> TRUE, read |-> FALSE, threw |-> FALSE]
    ELSE IF exists
    THEN IF fileContent.kind = "throws"
         THEN [ret |-> Undefined, scripts |-> map, stat |-> TRUE, read |-> TRUE,
               threw |-> TRUE]
         ELSE IF fileContent.kind = "content"
         THEN LET new == [projectVersion |-> projectVersion,
                          modifiedTime |-> modifiedTime,
                          scriptSnapshot |-> fromString(fileContent.text),
                          version |-> fileContent.text]
              IN [ret |-> Some(new),
                  scripts |-> map,
                  stat |-> TRUE, read |-> TRUE, threw |-> FALSE]
         ELSE [ret |-> Undefined, scripts |-> map, stat |-> TRUE, read |-> TRUE,
               threw |-> FALSE]
    ELSE [ret |-> Undefined, scripts |-> map, stat |-> TRUE, read |-> FALSE,
          threw |-> FALSE]

\* getScript without the fileExists test of line 159.
getScriptNoExistsCheck(map, projectVersion, fileName, sysTime, exists, fileContent) ==
    LET script == IF fileName \in DOMAIN map THEN Some(map[fileName]) ELSE Undefined
        modifiedTime == IF sysTime = Undefined THEN 0 ELSE sysTime[1]
    IN
    IF script # Undefined /\ script[1].projectVersion = projectVersion
    THEN [ret |-> script, scripts |-> map, stat |-> FALSE, read |-> FALSE, threw |-> FALSE]
    ELSE IF script # Undefined /\ script[1].modifiedTime = modifiedTime
    THEN [ret |-> script, scripts |-> map, stat |-> TRUE, read |-> FALSE, threw |-> FALSE]
    ELSE IF TRUE
    THEN IF fileContent.kind = "throws"
         THEN [ret |-> Undefined, scripts |-> map, stat |-> TRUE, read |-> TRUE,
               threw |-> TRUE]
         ELSE IF fileContent.kind = "content"
         THEN LET new == [projectVersion |-> projectVersion,
                          modifiedTime |-> modifiedTime,
                          scriptSnapshot |-> fromString(fileContent.text),
                          version |-> fileContent.text]
              IN [ret |-> Some(new),
                  scripts |-> [f \in DOMAIN map \cup {fileName} |->
                                  IF f = fileName THEN new ELSE map[f]],
                  stat |-> TRUE, read |-> TRUE, threw |-> FALSE]
         ELSE [ret |-> Undefined, scripts |-> map, stat |-> TRUE, read |-> TRUE,
               threw |-> FALSE]
    ELSE [ret |-> Undefined, scripts |-> map, stat |-> TRUE, read |-> FALSE,
          threw |-> FALSE]

\* getScript, were a failed read cached as an entry of empty text.
getScriptCachesMiss(map, projectVersion, fileName, sysTime, exists, fileContent) ==
    LET script == IF fileName \in DOMAIN map THEN Some(map[fileName]) ELSE Undefined
        modifiedTime == IF sysTime = Undefined THEN 0 ELSE sysTime[1]
    IN
    IF script # Undefined /\ script[1].projectVersion = projectVersion
    THEN [ret |-> script, scripts |-> map, stat |-> FALSE, read |-> FALSE, threw |-> FALSE]
    ELSE IF script # Undefined /\ script[1].modifiedTime = modifiedTime
    THEN [ret |-> script, scripts |-> map, stat |-> TRUE, read |-> FALSE, threw |-> FALSE]
    ELSE IF exists
    THEN IF fileContent.kind = "throws"
         THEN [ret |-> Undefined, scripts |-> map, stat |-> TRUE, read |-> TRUE,
               threw |-> TRUE]
         ELSE IF fileContent.kind = "content"
         THEN LET new == [projectVersion |-> projectVersion,
                          modifiedTime |-> modifiedTime,
                          scriptSnapshot |-> fromString(fileContent.text),
                          version |-> fileContent.text]
              IN [ret |-> Some(new),
                  scripts |-> [f \in DOMAIN map \cup {fileName} |->
                                  IF f = fileName THEN new ELSE map[f]],
                  stat |-> TRUE, read |-> TRUE, threw |-> FALSE]
         ELSE [ret |-> Undefined,
               scripts |-> [f \in DOMAIN map \cup {fileName} |->
                             IF f = fileName
                             THEN [projectVersion |-> projectVersion,
                                   modifiedTime |-> modifiedTime,
                                   scriptSnapshot |-> fromString(""),
                                   version |-> ""]
                             ELSE map[f]],
               stat |-> TRUE, read |-> TRUE, threw |-> FALSE]
    ELSE [ret |-> Undefined,
          scripts |-> [f \in DOMAIN map \cup {fileName} |->
                             IF f = fileName
                             THEN [projectVersion |-> projectVersion,
                                   modifiedTime |-> modifiedTime,
                                   scriptSnapshot |-> fromString(""),
                                   version |-> ""]
                             ELSE map[f]],
          stat |-> TRUE, read |-> FALSE, threw |-> FALSE]

\* getScript, were the entry of a file that cannot be read deleted.
getScriptDropsOnMiss(map, projectVersion, fileName, sysTime, exists, fileContent) ==
    LET script == IF fileName \in DOMAIN map THEN Some(map[fileName]) ELSE Undefined
        modifiedTime == IF sysTime = Undefined THEN 0 ELSE sysTime[1]
    IN
    IF script # Undefined /\ script[1].projectVersion = projectVersion
    THEN [ret |-> script, scripts |-> map, stat |-> FALSE, read |-> FALSE, threw |-> FALSE]
    ELSE IF script # Undefined /\ script[1].modifiedTime = modifiedTime
    THEN [ret |-> script, scripts |-> map, stat |-> TRUE, read |-> FALSE, threw |-> FALSE]
    ELSE IF exists
    THEN IF fileContent.kind = "throws"
         THEN [ret |-> Undefined, scripts |-> map, stat |-> TRUE, read |-> TRUE,
               threw |-> TRUE]
         ELSE IF fileContent.kind = "content"
         THEN LET new == [projectVersion |-> projectVersion,
                          modifiedTime |-> modifiedTime,
                          scriptSnapshot |-> fromString(fileContent.text),
                          version |-> fileContent.text]
              IN [ret |-> Some(new),
                  scripts |-> [f \in DOMAIN map \cup {fileName} |->
                                  IF f = fileName THEN new ELSE map[f]],
                  stat |-> TRUE, read |-> TRUE, threw |-> FALSE]
         ELSE [ret |-> Undefined, scripts |-> [f \in DOMAIN map \ {fileName} |-> map[f]],
               stat |-> TRUE, read |-> TRUE, threw |-> FALSE]
    ELSE [ret |-> Undefined, scripts |-> [f \in DOMAIN map \ {fileName} |-> map[f]],
          stat |-> TRUE, read |-> FALSE, threw |-> FALSE]

\* getScript, were a new entry recorded at the version after the current one.
getScriptStampsNext(map, projectVersion, fileName, sysTime, exists, fileContent) ==
    LET script == IF fileName \in DOMAIN map THEN Some(map[fileName]) ELSE Undefined
        modifiedTime == IF sysTime = Undefined THEN 0 ELSE sysTime[1]
    IN
    IF script # Undefined /\ script[1].projectVersion = projectVersion
    THEN [ret |-> script, scripts |-> map, stat |-> FALSE, read |-> FALSE, threw |-> FALSE]
    ELSE IF script # Undefined /\ script[1].modifiedTime = modifiedTime
    THEN [ret |-> script, scripts |-> map, stat |-> TRUE, read |-> FALSE, threw |-> FALSE]
    ELSE IF exists
    THEN IF fileContent.kind = "throws"
         THEN [ret |-> Undefined, scripts |-> map, stat |-> TRUE, read |-> TRUE,
               threw |-> TRUE]
         ELSE IF fileContent.kind = "content"
         THEN LET new == [projectVersion |-> projectVersion + 1,
                          modifiedTime |-> modifiedTime,
                          scriptSnapshot |-> fromString(fileContent.text),
                          version |-> fileContent.text]
              IN [ret |-> Some(new),
                  scripts |-> [f \in DOMAIN map \cup {fileName} |->
                                  IF f = fileName THEN new ELSE map[f]],
                  stat |-> TRUE, read |-> TRUE, threw |-> FALSE]
         ELSE [ret |-> Undefined, scripts |-> map, stat |-> TRUE, read |-> TRUE,
               threw |-> FALSE]
    ELSE [ret |-> Undefined, scripts |-> map, stat |-> TRUE, read |-> FALSE,
          threw |-> FALSE]

\* getScript (lines 147-172) on the Map `map` of a context at version
\* projectVersion, where sysTime is what getModifiedTime gives, exists what
\* fileExists gives and fileContent what readFile gives if it is called.
\* [ret: the entry returned (optional), scripts: the Map afterwards,
\*  stat, read: whether the modification time and the content were asked for,
\*  threw: whether readFile's exception leaves the call].
getScript(map, projectVersion, fileName, sysTime, exists, fileContent) ==
    LET script == IF fileName \in DOMAIN map THEN Some(map[fileName]) ELSE Undefined
        modifiedTime == IF sysTime = Undefined THEN 0 ELSE sysTime[1]
    IN
    IF script # Undefined /\ script[1].projectVersion = projectVersion
    THEN [ret |-> script, scripts |-> map, stat |-> FALSE, read |-> FALSE, threw |-> FALSE]
    ELSE IF script # Undefined /\ script[1].modifiedTime = modifiedTime
    THEN [ret |-> script, scripts |-> map, stat |-> TRUE, read |-> FALSE, threw |-> FALSE]
    ELSE IF exists
    THEN IF fileContent.kind = "throws"
         THEN [ret |-> Undefined, scripts |-> map, stat |-> TRUE, read |-> TRUE,
               threw |-> TRUE]
         ELSE IF fileContent.kind = "content"
         THEN LET new == [projectVersion |-> projectVersion,
                          modifiedTime |-> modifiedTime,
                          scriptSnapshot |-> fromString(fileContent.text),
                          version |-> fileContent.text]
              IN [ret |-> Some(new),
                  scripts |-> [f \in DOMAIN map \cup {fileName} |->
                                  IF f = fileName THEN new ELSE map[f]],
                  stat |-> TRUE, read |-> TRUE, threw |-> FALSE]
         ELSE [ret |-> Undefined, scripts |-> map, stat |-> TRUE, read |-> TRUE,
               threw |-> FALSE]
    ELSE [ret |-> Undefined, scripts |-> map, stat |-> TRUE, read |-> FALSE,
          threw |-> FALSE]

\* getScriptSnapshot (lines 144-146) of program's language host:
\* getScript(fileName)?.scriptSnapshot.  op.previous is the file and the
\* entry of the call before, when that was a getScriptSnapshot of the same
\* program and file at the same projectVersion.
getScriptSnapshot(program, fileName, fileContent) ==
    /\ program \in DOMAIN ctx
    /\ LET r == getScript(scripts[program], ctx[program].projectVersion, fileName,
                          getModifiedTime(fileName), fileExists(fileName), fileContent)
       IN
       /\ scripts' = [scripts EXCEPT ![program] = r.scripts]
       /\ op' = [kind |-> "getScriptSnapshot", program |-> program,
                 fileName |-> fileName,
                 projectVersion |-> ctx[program].projectVersion,
                 file |-> files[fileName],
                 previous |-> IF /\ op.kind = "getScriptSnapshot"
                                 /\ op.program = program
                                 /\ op.fileName = fileName
                                 /\ op.projectVersion = ctx[program].projectVersion
                              THEN Some([file |-> op.file, ret |-> op.ret,
                                         threw |-> op.threw])
                              ELSE Undefined,
                 script |-> IF fileName \in DOMAIN scripts[program]
                            THEN Some(scripts[program][fileName]) ELSE Undefined,
                 readFile |-> IF r.read THEN fileContent ELSE NotRead,
                 stat |-> r.stat,
                 ret |-> r.ret,
                 threw |-> r.threw,
                 snapshot |-> IF r.ret = Undefined THEN Undefined
                              ELSE Some(r.ret[1].scriptSnapshot)]
    /\ UNCHANGED <<ctx, state, files, started, aborts, returned, given>>

\* The file system changes under the program: a file is written, touched
\* or deleted.
FileChange(fileName, file) ==
    /\ files[fileName] # file
    /\ files' = [files EXCEPT ![fileName] = file]
    /\ UNCHANGED <<ctx, scripts, state, op, started, aborts, returned, given>>

\* ------------------------------------------------------ the language host
\* The members of languageHost (lines 62-74), read on a context c.
\* String.prototype.replace(/\\/g, '/')
replaceBackslashes(s) == [i \in DOMAIN s |-> IF s[i] = "\\" THEN "/" ELSE s[i]]

getCompilationSettings(c) == c.options.options

getScriptFileNames(c) == c.options.rootNames

getProjectVersion(c) == c.projectVersion

getProjectReferences(c) == c.options.projectReferences

getCurrentDirectory(c) == replaceBackslashes(c.options.host[1].getCurrentDirectory)

\* What a cancellation token request gives: the token of a host, no member
\* to call, or the TypeError of calling a member the host does not have.
Token(t) == [kind |-> "token", token |-> t]
NoMember == [kind |-> "undefined", token |-> ""]
TypeError == [kind |-> "TypeError", token |-> ""]

\* The member is there when the host of the creating call had one (line 73);
\* called, it calls the current host's.
getCancellationToken(c) ==
    IF c.languageHost.getCancellationToken
    THEN IF c.options.host[1].getCancellationToken # Undefined
         THEN Token(c.options.host[1].getCancellationToken[1])
         ELSE TypeError
    ELSE NoMember

\* ------------------------------------------- the virtual filesystem bridge
\* The fs object handed to createLanguageService (lines 81-131).  A URI is
\* the sequence of its characters.
FilePrefix == <<"f", "i", "l", "e", ":", "/", "/">>

Uris ==
    {<<"f", "i", "l", "e", ":", "/", "/", "/", "a">>,
     <<"f", "i", "l", "e", ":", "/", "/", "/", "d">>,
     <<"f", "i", "l", "e", ":", "/", "a">>,
     <<"h", "t", "t", "p", ":", "/", "/", "x">>}

\* String.prototype.startsWith
startsWith(s, prefix) ==
    Len(s) >= Len(prefix) /\ SubSeq(s, 1, Len(prefix)) = prefix

\* What node's fs gives for the path of a URI: a result, nothing, or an
\* exception (which also stands for one thrown by uriToFileName).
NoStats == [isFile |-> FALSE, isDirectory |-> FALSE, isSymbolicLink |-> FALSE, mtimeMs |-> 0]
Stats ==
    {st \in [isFile : BOOLEAN, isDirectory : BOOLEAN, isSymbolicLink : BOOLEAN,
             mtimeMs : Times] :
        Cardinality({k \in {"isFile", "isDirectory", "isSymbolicLink"} : st[k]}) <= 1}
statSyncResults ==
    {[kind |-> "stats", stats |-> st] : st \in Stats}
        \cup {[kind |-> "undefined", stats |-> NoStats], [kind |-> "throws", stats |-> NoStats]}

readFileSyncResults ==
    {[kind |-> "content", text |-> c] : c \in Contents} \cup {[kind |-> "throws", text |-> ""]}

Dirents == {<< >>, <<[name |-> "a.vue", stats |-> [NoStats EXCEPT !.isFile = TRUE]]>>,
            <<[name |-> "a.vue", stats |-> [NoStats EXCEPT !.isFile = TRUE]],
              [name |-> "d", stats |-> [NoStats EXCEPT !.isDirectory = TRUE]],
              [name |-> "l", stats |-> [NoStats EXCEPT !.isSymbolicLink = TRUE]],
              [name |-> "s", stats |-> NoStats]>>}
readdirSyncResults ==
    {[kind |-> "entries", files |-> d] : d \in Dirents} \cup {[kind |-> "throws", files |-> << >>]}

Encodings == {Undefined, Some("utf-8"), Some("latin1")}

\* FileType of a Stats or a Dirent: File 1, Directory 2, SymbolicLink 64, Unknown 0.
FileType(stats) ==
    IF stats.isFile THEN 1
    ELSE IF stats.isDirectory THEN 2
    ELSE IF stats.isSymbolicLink THEN 64
    ELSE 0

\* stat without the catch of lines 98-100.
statUncaught(uri, statSync) ==
    IF startsWith(uri, FilePrefix)
    THEN IF statSync.kind = "throws"
         THEN [ret |-> Undefined, threw |-> TRUE, called |-> TRUE]
         ELSE IF statSync.kind = "stats"
         THEN [ret |-> Some([type |-> FileType(statSync.stats),
                             mtime |-> statSync.stats.mtimeMs]),
               threw |-> FALSE, called |-> TRUE]
         ELSE [ret |-> Undefined, threw |-> FALSE, called |-> TRUE]
    ELSE [ret |-> Undefined, threw |-> FALSE, called |-> FALSE]

\* stat (lines 82-102): [ret: what is returned (optional), threw: whether an
\* exception leaves the call, called: whether node's fs was asked].  Of the
\* result's fields the type and the mtime are kept.
stat(uri, statSync) ==
    IF startsWith(uri, FilePrefix)
    THEN IF statSync.kind = "throws"
         THEN [ret |-> Undefined, threw |-> FALSE, called |-> TRUE]
         ELSE IF statSync.kind = "stats"
         THEN [ret |-> Some([type |-> FileType(statSync.stats),
                             mtime |-> statSync.stats.mtimeMs]),
               threw |-> FALSE, called |-> TRUE]
         ELSE [ret |-> Undefined, threw |-> FALSE, called |-> TRUE]
    ELSE [ret |-> Undefined, threw |-> FALSE, called |-> FALSE]

\* readFile (lines 103-112); the encoding asked for is passed on, utf-8
\* when none is.
readFile(uri, encoding, readFileSync) ==
    IF startsWith(uri, FilePrefix)
    THEN IF readFileSync.kind = "throws"
         THEN [ret |-> Undefined, threw |-> FALSE, called |-> TRUE,
               encoding |-> IF encoding = Undefined THEN "utf-8" ELSE encoding[1]]
         ELSE [ret |-> Some(readFileSync.text), threw |-> FALSE, called |-> TRUE,
               encoding |-> IF encoding = Undefined THEN "utf-8" ELSE encoding[1]]
    ELSE [ret |-> Undefined, threw |-> FALSE, called |-> FALSE, encoding |-> ""]

\* readDirectory (lines 113-130): the [name, FileType] pairs of the listing.
readDirectory(uri, readdirSync) ==
    IF startsWith(uri, FilePrefix)
    THEN IF readdirSync.kind = "throws"
         THEN [ret |-> << >>, threw |-> FALSE, called |-> TRUE]
         ELSE [ret |-> [i \in DOMAIN readdirSync.files |->
                           <<readdirSync.files[i].name,
                             FileType(readdirSync.files[i].stats)>>],
               threw |-> FALSE, called |-> TRUE]
    ELSE [ret |-> << >>, threw |-> FALSE, called |-> FALSE]

\* The engine of a program calls into the bridge.
fsStat(program, uri, statSync) ==
    /\ program \in DOMAIN ctx
    /\ op' = [kind |-> "fs.stat", program |-> program, uri |-> uri,
              outcome |-> statSync.kind, result |-> stat(uri, statSync)]
    /\ UNCHANGED <<ctx, scripts, state, files, started, aborts, returned, given>>

fsReadFile(program, uri, encoding, readFileSync) ==
    /\ program \in DOMAIN ctx
    /\ op' = [kind |-> "fs.readFile", program |-> program, uri |-> uri,
              outcome |-> readFileSync.kind,
              result |-> readFile(uri, encoding, readFileSync)]
    /\ UNCHANGED <<ctx, scripts, state, files, started, aborts, returned, given>>

fsReadDirectory(program, uri, readdirSync) ==
    /\ program \in DOMAIN ctx
    /\ op' = [kind |-> "fs.readDirectory", program |-> program, uri |-> uri,
              outcome |-> readdirSync.kind, result |-> readDirectory(uri, readdirSync)]
    /\ UNCHANGED <<ctx, scripts, state, files, started, aborts, returned, given>>

Start ==
    /\ ctx = << >>
    /\ scripts = << >>
    /\ state = [hook |-> Undefined]
    /\ files = [f \in Files |-> Some([content |-> "<template>a</template>", mtime |-> 1])]
    /\ op = [kind |-> "init"]
    /\ started = [p \in ProgIds |-> [highest |-> -1, again |-> FALSE]]
    /\ aborts = [p \in ProgIds |-> 0]
    /\ returned = [p \in ProgIds |-> FALSE]


\* ------------------------------------------------------ the specifications
Settings(noEmit, emitDeclarationOnly, noEmitOnError, extendedDiagnostics, generateTrace) ==
    [noEmit |-> noEmit, emitDeclarationOnly |-> emitDeclarationOnly,
     noEmitOnError |-> noEmitOnError, extendedDiagnostics |-> extendedDiagnostics,
     generateTrace |-> generateTrace]

\* Two options that pass the validation, and one that fails each check.
ValidOptions ==
    {[rootNames |-> <<"a.vue">>, host |-> Some(PosixHost), projectReferences |-> Undefined,
      options |-> Settings(TRUE, FALSE, FALSE, FALSE, FALSE)],
     [rootNames |-> <<"a.vue", "b.ts">>, host |-> Some(PosixHost), projectReferences |-> Undefined,
      options |-> Settings(FALSE, TRUE, FALSE, FALSE, FALSE)]}

InvalidOptions ==
    {[rootNames |-> <<"a.vue">>, host |-> Some(PosixHost), projectReferences |-> Undefined,
      options |-> Settings(FALSE, FALSE, FALSE, FALSE, FALSE)],
     [rootNames |-> <<"a.vue">>, host |-> Some(PosixHost), projectReferences |-> Undefined,
      options |-> Settings(FALSE, TRUE, TRUE, FALSE, FALSE)],
     [rootNames |-> <<"a.vue">>, host |-> Some(PosixHost), projectReferences |-> Undefined,
      options |-> Settings(TRUE, FALSE, FALSE, TRUE, FALSE)],
     [rootNames |-> <<"a.vue">>, host |-> Undefined, projectReferences |-> Undefined,
      options |-> Settings(TRUE, FALSE, FALSE, FALSE, FALSE)]}

Init ==
    /\ Start
    /\ given = [rootNames |-> <<"a.vue">>, host |-> Some(PosixHost), projectReferences |-> Undefined,
                options |-> Settings(TRUE, FALSE, FALSE, FALSE, FALSE)]

\* The program lifecycle: every kind of createProgram call on the two
\* programs, the hook workers and the caller's re-entry.
Next ==
    \/ \E options \in ValidOptions \cup InvalidOptions, oldProgram \in OldPrograms :
          /\ CanCall(options, oldProgram)
          /\ \E parsedHooks \in ParsedHooks(options, oldProgram) :
                createProgram(options, oldProgram, parsedHooks)
    \/ Settle
    \/ ClearHook

Spec == Init /\ [][Next]_vars

\* The validation: the options given are any combination of compiler
\* settings, host and root names, and are passed at any point of the life
\* of one program, its hook chain and its script cache.
InitOptions ==
    /\ Start
    /\ given \in CreateProgramOptions

NextOptions ==
    \/ \E options \in ValidOptions \cup {given}, oldProgram \in OldPrograms :
          /\ CanCall(options, oldProgram)
          /\ branch(state.hook, oldProgram) = "create" => DOMAIN ctx = {}
          /\ \E parsedHooks \in ParsedHooks(options, oldProgram) :
                createProgram(options, oldProgram, parsedHooks)
    \/ Settle
    \/ ClearHook
    \/ \E program \in DOMAIN ctx, fileContent \in readFileResults("a.vue") :
          getScriptSnapshot(program, "a.vue", fileContent)

SpecOptions == InitOptions /\ [][NextOptions]_vars

\* The script cache: one program without hooks, created and reused, every
\* file read through its language host while one of them is written,
\* touched and deleted.
ChangingFiles == {"a.vue"}

NextCache ==
    \/ \E oldProgram \in OldPrograms :
          /\ CanCall(given, oldProgram)
          /\ branch(state.hook, oldProgram) = "create" => DOMAIN ctx = {}
          /\ createProgram(given, oldProgram, Undefined)
    \/ \E program \in DOMAIN ctx, fileName \in Files :
          \E fileContent \in readFileResults(fileName) :
             getScriptSnapshot(program, fileName, fileContent)
    \/ \E fileName \in ChangingFiles, file \in FileStates : FileChange(fileName, file)

SpecCache == Init /\ [][NextCache]_vars

\* The filesystem bridge: one program, created and reused, whose engine
\* asks the bridge about every URI with every outcome of node's fs.
NextFs ==
    \/ \E oldProgram \in OldPrograms :
          /\ CanCall(given, oldProgram)
          /\ branch(state.hook, oldProgram) = "create" => DOMAIN ctx = {}
          /\ createProgram(given, oldProgram, Undefined)
    \/ \E program \in DOMAIN ctx, uri \in Uris, statSync \in statSyncResults :
          fsStat(program, uri, statSync)
    \/ \E program \in DOMAIN ctx, uri \in Uris, encoding \in Encodings :
          \E readFileSync \in readFileSyncResults :
             fsReadFile(program, uri, encoding, readFileSync)
    \/ \E program \in DOMAIN ctx, uri \in Uris, readdirSync \in readdirSyncResults :
          fsReadDirectory(program, uri, readdirSync)

SpecFs == Init /\ [][NextFs]_vars

\* The language host: one program with any hooks, created, resumed and
\* reused with every combination of root names, host and project
\* references.
HostOptions ==
    {[rootNames |-> r, host |-> Some(h), projectReferences |-> pr,
      options |-> Settings(TRUE, FALSE, FALSE, FALSE, FALSE)] :
        r \in RootNames, h \in Hosts, pr \in ProjectReferences}

NextHost ==
    \/ \E options \in HostOptions, oldProgram \in OldPrograms :
          /\ CanCall(options, oldProgram)
          /\ branch(state.hook, oldProgram) = "create" => DOMAIN ctx = {}
          /\ \E parsedHooks \in ParsedHooks(options, oldProgram) :
                createProgram(options, oldProgram, parsedHooks)
    \/ Settle
    \/ ClearHook

SpecHost == Init /\ [][NextHost]_vars

\* ----------------------------------------------------- the hook chain
\* The number of hooks program p's configuration declares.
HooksOf(p) ==
    IF ctx[p].vueCompilerOptions = Undefined THEN 0 ELSE ctx[p].vueCompilerOptions[1]

\* C1: on a fresh program whose configuration declares N hooks, with the
\* caller calling again only after the pending hook has settled, exactly N
\* createProgram calls end with 'hook' before one returns the program: no
\* call ends with 'hook' once N have, and the call that first returns the
\* program comes after exactly N of them.
C1_HookChainLength ==
    \A p \in DOMAIN ctx :
        /\ aborts[p] <= HooksOf(p)
        /\ returned[p] => aborts[p] = HooksOf(p)
        /\ (op.kind = "createProgram" /\ op.program = Some(p) /\ op.firstReturn)
               => op.startedHook = Undefined /\ op.result = Returned

C1_Witness ==
    /\ op.kind = "createProgram"
    /\ op.firstReturn
    /\ op.branch = "resume"
    /\ HooksOf(op.program[1]) = MaxHooks
    /\ aborts[op.program[1]] = MaxHooks

\* C2: over the calls on one program (creation, reuse and hook-resume), a
\* hook that is started is the one right after the last index started on
\* that program, and no hook index is started a second time.
C2_HooksOnceInOrder ==
    /\ \A p \in ProgIds : ~started[p].again
    /\ (op.kind = "createProgram" /\ op.startedHook # Undefined)
           => op.startedHook[1] = op.lastStarted + 1

\* ------------------------------------------------------ projectVersion
\* The prior programs a caller can supply: none, or a program made so far.
PriorPrograms == {Undefined} \cup {Some(p) : p \in DOMAIN ctx}

\* C3 as stated: a new program starts at version 0, no version decreases,
\* and a call that supplies program p as the prior program adds one to p's
\* version, and every other call leaves it alone.
C3_EveryPriorProgramCallBumps ==
    [][/\ \A p \in DOMAIN ctx' \ DOMAIN ctx : ctx'[p].projectVersion = 0
       /\ \A p \in DOMAIN ctx : ctx'[p].projectVersion >= ctx[p].projectVersion
       /\ \A options \in ValidOptions, oldProgram \in PriorPrograms :
           \A parsedHooks \in ParsedHooks(options, oldProgram) :
             createProgram(options, oldProgram, parsedHooks) =>
                 \A p \in DOMAIN ctx :
                     ctx'[p].projectVersion =
                         ctx[p].projectVersion + (IF oldProgram = Some(p) THEN 1 ELSE 0)
      ]_vars

\* C3, amended: a new program starts at version 0; a call that passes the
\* validation and supplies program p as the prior program while the hook
\* slot is empty adds exactly one to p's version; a call made while the
\* slot is set, whatever prior program it supplies, changes no version;
\* and a version changes in no other step.
C3_ProjectVersion ==
    [][/\ \A p \in DOMAIN ctx' \ DOMAIN ctx : ctx'[p].projectVersion = 0
       /\ \A options \in ValidOptions, oldProgram \in PriorPrograms :
           \A parsedHooks \in ParsedHooks(options, oldProgram) :
             createProgram(options, oldProgram, parsedHooks) =>
                 \A p \in DOMAIN ctx :
                     ctx'[p].projectVersion =
                         ctx[p].projectVersion +
                            (IF state.hook = Undefined /\ oldProgram = Some(p) THEN 1 ELSE 0)
       /\ \A p \in DOMAIN ctx :
             ctx'[p].projectVersion # ctx[p].projectVersion =>
                 /\ state.hook = Undefined
                 /\ \E options \in ValidOptions : createProgram(options, Some(p), Undefined)
      ]_vars

C3_Witness ==
    /\ op.kind = "createProgram"
    /\ op.branch = "reuse"
    /\ ctx[op.program[1]].projectVersion = MaxVersion

\* C9: while the hook slot is set, a call that passes the validation, with
\* or without a prior program, works on the slot's program: it replaces
\* that program's stored options and nothing else of any context, changes
\* no projectVersion and constructs no context, cache or engine.
C9_ResumeUsesHookProgram ==
    [][\A options \in ValidOptions, oldProgram \in PriorPrograms :
          (state.hook # Undefined /\ createProgram(options, oldProgram, Undefined)) =>
              /\ op'.program = Some(state.hook[1].program)
              /\ ctx' = [ctx EXCEPT ![state.hook[1].program].options = options]
              /\ scripts' = scripts
              /\ ~op'.constructed
      ]_vars

C9_Witness ==
    /\ op.kind = "createProgram"
    /\ op.branch = "resume"
    /\ op.oldProgram # Undefined
    /\ op.oldProgram # op.program
    /\ state.hook # Undefined

\* ---------------------------------------------------------- validation
\* C7: a call whose settings have noEmit false and emitDeclarationOnly
\* false ends with the logged 'js emit is not supported' message, before
\* any root file is materialised, any context constructed or any hook
\* started, and leaves the hook slot, every context and every script cache
\* as they were.
C7_JsEmitRejected ==
    [][\A oldProgram \in PriorPrograms :
          (/\ ~given.options.noEmit
           /\ ~given.options.emitDeclarationOnly
           /\ createProgram(given, oldProgram, Undefined)) =>
              /\ op'.result = JsEmitMsg
              /\ op'.logged = Some(JsEmitMsg)
              /\ op'.getSourceFile = << >>
              /\ ~op'.constructed
              /\ op'.startedHook = Undefined
              /\ UNCHANGED <<ctx, scripts, state, files>>
      ]_vars

C7_Witness ==
    /\ op.kind = "createProgram"
    /\ op.result = JsEmitMsg
    /\ given.options.extendedDiagnostics
    /\ state.hook # Undefined
    /\ \E p \in DOMAIN ctx : ctx[p].projectVersion > 0 /\ scripts[p] # << >>

\* C8 as stated: a call whose settings have extendedDiagnostics true ends
\* with the extendedDiagnostics / generateTrace message, whatever the other
\* settings are.
C8_AlwaysExtendedDiagnosticsMessage ==
    [][\A oldProgram \in PriorPrograms :
          (given.options.extendedDiagnostics /\ createProgram(given, oldProgram, Undefined))
              => op'.result = ExtDiagMsg
      ]_vars

\* C8, amended: a call whose settings have extendedDiagnostics true is
\* always rejected, with the message of the first check that fails: 'js
\* emit is not supported' when noEmit and emitDeclarationOnly are false,
\* 'noEmitOnError is not supported' when noEmit is false and noEmitOnError
\* true, and the extendedDiagnostics / generateTrace message otherwise,
\* with or without a host.
C8_ExtendedDiagnosticsRejected ==
    [][\A oldProgram \in PriorPrograms :
          (given.options.extendedDiagnostics /\ createProgram(given, oldProgram, Undefined)) =>
              /\ op'.result =
                    IF ~given.options.noEmit /\ ~given.options.emitDeclarationOnly
                    THEN JsEmitMsg
                    ELSE IF ~given.options.noEmit /\ given.options.noEmitOnError
                    THEN NoEmitOnErrMsg
                    ELSE ExtDiagMsg
              /\ op'.logged = Some(op'.result)
              /\ UNCHANGED <<ctx, scripts, state, files>>
      ]_vars

C8_Witness ==
    /\ op.kind = "createProgram"
    /\ op.result = ExtDiagMsg
    /\ given.host = Undefined
    /\ ~given.options.noEmit
    /\ DOMAIN ctx # {}

\* --------------------------------------------------------- script cache
\* The modification time getScript works with for a file: 0 stands in for
\* the time of a file that is not there.
TimeSeen(file) == IF file = Undefined THEN 0 ELSE file[1].mtime

\* The entry getScript found can be reused: its version is the context's
\* or its modification time is the file's.
Reusable(script, projectVersion, file) ==
    /\ script # Undefined
    /\ \/ script[1].projectVersion = projectVersion
       \/ script[1].modifiedTime = TimeSeen(file)

\* The entry a call builds from the content text.
Built(projectVersion, file, text) ==
    [projectVersion |-> projectVersion, modifiedTime |-> TimeSeen(file),
     scriptSnapshot |-> fromString(text), version |-> text]

\* The cache of the last call's program holds for its file what the call found.
CacheUntouched ==
    IF op.script = Undefined
    THEN op.fileName \notin DOMAIN scripts[op.program]
    ELSE /\ op.fileName \in DOMAIN scripts[op.program]
         /\ scripts[op.program][op.fileName] = op.script[1]

\* C4 as stated: the entry found is returned if and only if its version is
\* the current projectVersion or its modification time the file's; in
\* every other case a new entry built from what readFile returns now is
\* returned.
C4_ReusedOrRebuilt ==
    op.kind = "getScriptSnapshot" =>
        IF Reusable(op.script, op.projectVersion, op.file)
        THEN op.ret = op.script /\ op.readFile = NotRead
        ELSE /\ op.readFile.kind = "content"
             /\ op.ret = Some(Built(op.projectVersion, op.file, op.readFile.text))

\* C4, amended: the entry found is returned, and nothing read, if and only
\* if its version is the current projectVersion or its modification time
\* the file's; in every other case, when the file exists and readFile
\* returns content, a new entry built from that content is stored and
\* returned, and when the file does not exist or readFile returns
\* undefined or throws, no entry is returned and the cache is left as it
\* was.
C4_ReusedRebuiltOrNothing ==
    op.kind = "getScriptSnapshot" =>
        IF Reusable(op.script, op.projectVersion, op.file)
        THEN op.ret = op.script /\ op.readFile = NotRead /\ CacheUntouched
        ELSE IF op.file # Undefined /\ op.readFile.kind = "content"
        THEN /\ op.readFile.text = op.file[1].content
             /\ op.ret = Some(Built(op.projectVersion, op.file, op.readFile.text))
             /\ op.ret # op.script
             /\ scripts[op.program][op.fileName] = op.ret[1]
        ELSE /\ op.ret = Undefined
             /\ (op.file = Undefined <=> op.readFile = NotRead)
             /\ CacheUntouched

\* A stale entry was replaced by one built from the content read.
C4_Witness ==
    /\ op.kind = "getScriptSnapshot"
    /\ op.script # Undefined
    /\ ~Reusable(op.script, op.projectVersion, op.file)
    /\ op.ret # Undefined
    /\ op.ret[1].scriptSnapshot # op.script[1].scriptSnapshot

\* C5 as stated: when the file's modification time has changed since the
\* call before for the same file, at the same projectVersion, the call
\* reads the content again and stores and returns a new entry.
C5_MtimeChangeRereads ==
    (/\ op.kind = "getScriptSnapshot"
     /\ op.previous # Undefined
     /\ TimeSeen(op.previous[1].file) # TimeSeen(op.file)) =>
        /\ op.readFile.kind = "content"
        /\ op.ret # Undefined
        /\ op.ret # op.previous[1].ret
        /\ scripts[op.program][op.fileName] = op.ret[1]

\* C5, amended: when the file's modification time has changed since the
\* call before for the same file, at the same projectVersion, the call
\* returns the cached entry without reading whenever that entry was
\* recorded at the current projectVersion, as every entry the call before
\* built or matched by version is; it reads the content again, and stores
\* and returns a new entry, only when there is no cached entry or the
\* cached entry was recorded at another projectVersion and another
\* modification time than the file's, and the file exists and readFile
\* returns content.
C5_MtimeChangeRereadsOldVersionOnly ==
    (/\ op.kind = "getScriptSnapshot"
     /\ op.previous # Undefined
     /\ TimeSeen(op.previous[1].file) # TimeSeen(op.file)) =>
        LET stale == \/ op.script = Undefined
                     \/ /\ op.script[1].projectVersion # op.projectVersion
                        /\ op.script[1].modifiedTime # TimeSeen(op.file)
            last == op.previous[1].ret
        IN
        /\ (last # Undefined /\ last[1].projectVersion = op.projectVersion) =>
               op.script = last
        /\ ~stale => op.ret = op.script /\ op.readFile = NotRead /\ CacheUntouched
        /\ (stale /\ op.file # Undefined /\ op.readFile.kind = "content") =>
               /\ op.ret = Some(Built(op.projectVersion, op.file, op.file[1].content))
               /\ op.ret # last
               /\ scripts[op.program][op.fileName] = op.ret[1]
        /\ op.readFile.kind = "content" => stale /\ op.file # Undefined

\* The modification time changed after an entry was reused by its
\* modification time at a later projectVersion, and the content was read again.
C5_Witness ==
    /\ op.kind = "getScriptSnapshot"
    /\ op.previous # Undefined
    /\ op.previous[1].ret # Undefined
    /\ op.previous[1].file # Undefined
    /\ op.file # Undefined
    /\ op.previous[1].file[1].mtime # op.file[1].mtime
    /\ op.readFile.kind = "content"
    /\ op.ret # op.previous[1].ret

\* C6 as stated: the call gives no snapshot whenever the file does not
\* exist or readFile gives no content, whatever the cache holds, and else
\* the snapshot of the file's current content.
C6_NoSnapshotIffUnreadable ==
    op.kind = "getScriptSnapshot" =>
        /\ op.file = Undefined => op.snapshot = Undefined
        /\ op.readFile.kind \in {"undefined", "throws"} => op.snapshot = Undefined
        /\ op.readFile.kind = "content" =>
               op.snapshot = Some(fromString(op.file[1].content))

\* C6, amended: the call gives the snapshot of the cached entry whenever
\* that entry can be reused (its version is the current projectVersion or
\* its modification time the file's), also when the file no longer exists;
\* otherwise it gives no snapshot when the file does not exist or readFile
\* returns undefined, lets the exception of a readFile that throws leave
\* the call, and else gives the snapshot of the file's current content.
C6_CachedElseCurrentOrNothing ==
    op.kind = "getScriptSnapshot" =>
        IF Reusable(op.script, op.projectVersion, op.file)
        THEN op.snapshot = Some(op.script[1].scriptSnapshot) /\ ~op.threw
        ELSE IF op.file = Undefined
        THEN op.snapshot = Undefined /\ ~op.threw /\ op.readFile = NotRead
        ELSE /\ op.readFile.kind = "undefined" => op.snapshot = Undefined /\ ~op.threw
             /\ op.readFile.kind = "throws" => op.snapshot = Undefined /\ op.threw
             /\ op.readFile.kind = "content" =>
                    op.snapshot = Some(fromString(op.file[1].content)) /\ ~op.threw
             /\ op.readFile # NotRead

\* The file is gone and the call still gives the cached snapshot.
C6_Witness ==
    /\ op.kind = "getScriptSnapshot"
    /\ op.file = Undefined
    /\ op.snapshot # Undefined

\* C10: a call that follows a call for the same file, with the file and
\* projectVersion as they were, returns the entry the call before
\* returned, reads no content and leaves the stored entry in place.
C10_RepeatedCallSameEntry ==
    (/\ op.kind = "getScriptSnapshot"
     /\ op.previous # Undefined
     /\ op.previous[1].file = op.file
     /\ op.previous[1].ret # Undefined) =>
        /\ op.ret = op.previous[1].ret
        /\ op.readFile = NotRead
        /\ op.script = op.ret
        /\ scripts[op.program][op.fileName] = op.ret[1]

\* The repeated call found the entry reusable by its modification time only.
C10_Witness ==
    /\ op.kind = "getScriptSnapshot"
    /\ op.previous # Undefined
    /\ op.previous[1].file = op.file
    /\ op.previous[1].ret # Undefined
    /\ op.ret = op.previous[1].ret
    /\ op.ret[1].projectVersion < op.projectVersion

\* ------------------------------------------------------- read failures
\* C11: a call in which the read of the snapshot fails, because the file is
\* missing when getScript looks for it or because readFile throws, gives
\* no snapshot and lets no exception leave the call.
C11_ReadFailureRecovered ==
    (/\ op.kind = "getScriptSnapshot"
     /\ \/ op.readFile.kind = "throws"
        \/ op.file = Undefined /\ ~Reusable(op.script, op.projectVersion, op.file)) =>
        /\ op.snapshot = Undefined
        /\ ~op.threw

\* ------------------------------------------------ the filesystem bridge
FsCalls == {"fs.stat", "fs.readFile", "fs.readDirectory"}

\* C12: no call into the bridge lets an exception out; for a URI that does
\* not start with file://, stat and readFile return undefined and
\* readDirectory an empty list, and node's fs is not asked; for a file://
\* URI, a stat that finds nothing or throws and a read that throws give
\* undefined, and a listing that throws gives an empty list.
C12_BridgeNeverThrows ==
    op.kind \in FsCalls =>
        /\ ~op.result.threw
        /\ ~startsWith(op.uri, FilePrefix) =>
               /\ ~op.result.called
               /\ op.result.ret = (IF op.kind = "fs.readDirectory" THEN << >> ELSE Undefined)
        /\ (startsWith(op.uri, FilePrefix) /\ op.outcome \in {"undefined", "throws"}) =>
               op.result.ret = (IF op.kind = "fs.readDirectory" THEN << >> ELSE Undefined)

C12_Witness ==
    /\ op.kind = "fs.stat"
    /\ startsWith(op.uri, FilePrefix)
    /\ op.outcome = "throws"
    /\ op.result.ret = Undefined

\* ------------------------------------------------- configuration errors
\* A step is the call createProgram(options) with this prior program and
\* this parsed configuration.
Call(options, oldProgram, parsedHooks) ==
    /\ op'.kind = "createProgram"
    /\ op'.oldProgram = oldProgram
    /\ createProgram(options, oldProgram, parsedHooks)

ConfigurationErrors == {JsEmitMsg, NoEmitOnErrMsg, ExtDiagMsg, NoHostMsg}

\* C13: a call (op, with the options it was given) ends with a
\* configuration error if and only if its settings have noEmit and emitDeclarationOnly false, or noEmit false and
\* noEmitOnError true, or extendedDiagnostics or generateTrace true, or no
\* host is supplied; the message thrown is the message logged; every other
\* call returns a program or ends with 'hook', and logs nothing.
C13_FatalIffInvalid ==
    op.kind = "createProgram" =>
        LET o == op.options.options
            fatal == \/ ~o.noEmit /\ ~o.emitDeclarationOnly
                     \/ ~o.noEmit /\ o.noEmitOnError
                     \/ o.extendedDiagnostics
                     \/ o.generateTrace
                     \/ op.options.host = Undefined
        IN
        IF fatal
        THEN /\ op.result \in ConfigurationErrors
             /\ op.logged = Some(op.result)
             /\ op.program = Undefined
        ELSE /\ op.result \in {Returned, HookSignal}
             /\ op.logged = Undefined
             /\ op.program # Undefined

\* Options that fail the host check alone were rejected after a program
\* had been made.
C13_Witness ==
    /\ op.kind = "createProgram"
    /\ op.result = NoHostMsg
    /\ op.logged = Some(NoHostMsg)
    /\ given.host = Undefined
    /\ given.options.noEmit
    /\ ~given.options.extendedDiagnostics
    /\ ~given.options.generateTrace
    /\ DOMAIN ctx # {}

\* ------------------------------------------------- the root files
\* The number of hooks a context declares.
HookCount(c) == IF c.vueCompilerOptions = Undefined THEN 0 ELSE c.vueCompilerOptions[1]

\* C14: a call that returns a program finds no hook left to run (every
\* index below the number of hooks declared has been started on the
\* program) and has called getSourceFile once for each root name of its
\* own options, in their order; a call that ends with 'hook' or with a
\* configuration error has called getSourceFile for none.
C14_ReturnAfterHooksAndRoots ==
    [][/\ \A options \in ValidOptions, oldProgram \in PriorPrograms :
            \A parsedHooks \in ParsedHooks(options, oldProgram) :
               Call(options, oldProgram, parsedHooks) =>
                   IF op'.result = Returned
                   THEN LET p == op'.program[1] IN
                        /\ nextIndex(state.hook) >= HookCount(ctx'[p])
                        /\ started'[p].highest = HookCount(ctx'[p]) - 1
                        /\ op'.startedHook = Undefined
                        /\ op'.getSourceFile = options.rootNames
                   ELSE op'.result = HookSignal /\ op'.getSourceFile = << >>
       /\ (op'.kind = "createProgram" /\ op'.result # Returned) =>
              op'.getSourceFile = << >>
      ]_vars

\* A program with the most hooks was returned with two root files
\* materialised.
C14_Witness ==
    /\ op.kind = "createProgram"
    /\ op.result = Returned
    /\ HooksOf(op.program[1]) = MaxHooks
    /\ started[op.program[1]].highest = MaxHooks - 1
    /\ op.getSourceFile = <<"a.vue", "b.ts">>

\* ------------------------------------------------- calls without a snapshot
\* The call before, for the same file at the same projectVersion, gave no
\* snapshot and threw nothing.
AfterMiss ==
    /\ op.kind = "getScriptSnapshot"
    /\ op.previous # Undefined
    /\ op.previous[1].ret = Undefined
    /\ ~op.previous[1].threw

\* C15 as stated: a call that gives no snapshot leaves the cache as it
\* was; the call after it for the same file looks at the file again: it
\* reads a file that exists, and returns a new entry of the current
\* content when readFile gives content.
C15_MissNotCachedNextCallFresh ==
    /\ (op.kind = "getScriptSnapshot" /\ op.ret = Undefined /\ ~op.threw) => CacheUntouched
    /\ AfterMiss =>
          /\ op.file # Undefined => op.readFile # NotRead
          /\ op.readFile.kind = "content" =>
                op.ret = Some(Built(op.projectVersion, op.file, op.file[1].content))

\* C15, amended: a call that gives no snapshot leaves the cache as it was;
\* the call after it for the same file, at the same projectVersion, returns
\* the older entry the cache still holds, without looking at the file,
\* when that entry's recorded modifiedTime equals the file's modification
\* time at this call (0 for a file that has none); otherwise it looks at
\* the file again, reads it if it exists, and stores and returns a new
\* entry of the current content when readFile gives content.
C15_MissNotCachedNextCallFreshUnlessMtimeMatch ==
    /\ (op.kind = "getScriptSnapshot" /\ op.ret = Undefined /\ ~op.threw) => CacheUntouched
    /\ AfterMiss =>
          IF op.script # Undefined /\ op.script[1].modifiedTime = TimeSeen(op.file)
          THEN /\ op.ret = op.script
               /\ op.readFile = NotRead
               /\ CacheUntouched
          ELSE /\ op.file # Undefined => op.readFile # NotRead
               /\ op.file = Undefined => op.ret = Undefined /\ op.readFile = NotRead
               /\ op.readFile.kind = "content" =>
                     /\ op.ret = Some(Built(op.projectVersion, op.file, op.file[1].content))
                     /\ scripts[op.program][op.fileName] = op.ret[1]

\* The file was missing at the call before, with an older entry cached, and
\* is back: the call read it and replaced the entry.
C15_Witness ==
    /\ AfterMiss
    /\ op.previous[1].file = Undefined
    /\ op.script # Undefined
    /\ op.file # Undefined
    /\ op.readFile.kind = "content"
    /\ op.ret # Undefined
    /\ op.ret # op.script
    /\ scripts[op.program][op.fileName] = op.ret[1]

\* ------------------------------------------------- the language host
\* C16: after a call that passes the validation, the language host of the
\* program it worked on is the object it was and answers from the options
\* of that call: their root names, compiler settings and project
\* references, the current directory of their host, and the cancellation
\* token of their host (no member when that host has none).
C16_ViewsFollowLatestOptions ==
    [][\A options \in HostOptions, oldProgram \in PriorPrograms :
         \A parsedHooks \in ParsedHooks(options, oldProgram) :
            createProgram(options, oldProgram, parsedHooks) =>
                LET p == op'.program[1]
                    c == ctx'[p]
                    host == options.host[1]
                IN
                /\ p \in DOMAIN ctx => c.languageHost = ctx[p].languageHost
                /\ getScriptFileNames(c) = options.rootNames
                /\ getCompilationSettings(c) = options.options
                /\ getProjectReferences(c) = options.projectReferences
                /\ getCurrentDirectory(c) = replaceBackslashes(host.getCurrentDirectory)
                /\ getCancellationToken(c) =
                      IF host.getCancellationToken # Undefined
                      THEN Token(host.getCancellationToken[1])
                      ELSE NoMember
      ]_vars

\* ------------------------------------------------- construction
\* C17: a call that passes the validation constructs a context, with its
\* engine, its empty script cache and the hooks parsed, exactly when it
\* supplies no prior program while the hook slot is empty, and then for a
\* program that had none; any other such call works on the prior program
\* supplied, or on the slot's program, and constructs nothing; and no step
\* gives a program another engine, language host or vueCompilerOptions.
C17_ConstructedOncePerProgram ==
    [][/\ \A options \in ValidOptions, oldProgram \in PriorPrograms :
            \A parsedHooks \in ParsedHooks(options, oldProgram) :
               Call(options, oldProgram, parsedHooks) =>
                   LET p == op'.program[1] IN
                   /\ op'.constructed <=> (oldProgram = Undefined /\ state.hook = Undefined)
                   /\ op'.constructed =>
                         /\ p \notin DOMAIN ctx
                         /\ DOMAIN ctx' = DOMAIN ctx \cup {p}
                         /\ ctx'[p].languageService.id = p
                         /\ ctx'[p].vueCompilerOptions = parsedHooks
                         /\ scripts'[p] = << >>
                   /\ ~op'.constructed =>
                         /\ DOMAIN ctx' = DOMAIN ctx
                         /\ p = IF state.hook # Undefined
                                THEN state.hook[1].program ELSE oldProgram[1]
       /\ \A p \in DOMAIN ctx :
             /\ p \in DOMAIN ctx'
             /\ ctx'[p].languageService = ctx[p].languageService
             /\ ctx'[p].languageHost = ctx[p].languageHost
             /\ ctx'[p].vueCompilerOptions = ctx[p].vueCompilerOptions
      ]_vars

\* A program that declares hooks was reused, beside another program, after
\* its chain had been run and the slot cleared.
C17_Witness ==
    /\ op.kind = "createProgram"
    /\ op.branch = "reuse"
    /\ ~op.constructed
    /\ HooksOf(op.program[1]) > 0
    /\ Cardinality(DOMAIN ctx) = 2

\* ------------------------------------------------- growth of the cache
\* C18: no step takes a file name out of a script cache; the entry of a
\* name is changed only by a getScriptSnapshot call for it that read
\* content, and is then the entry that call returned.
C18_CacheNeverShrinks ==
    [][\A p \in DOMAIN scripts :
          /\ p \in DOMAIN scripts'
          /\ DOMAIN scripts[p] \subseteq DOMAIN scripts'[p]
          /\ \A f \in DOMAIN scripts'[p] :
                (f \notin DOMAIN scripts[p] \/ scripts'[p][f] # scripts[p][f]) =>
                    /\ op'.kind = "getScriptSnapshot"
                    /\ op'.program = p
                    /\ op'.fileName = f
                    /\ op'.readFile.kind = "content"
                    /\ op'.ret = Some(scripts'[p][f])
      ]_vars

\* The file of a cached entry is gone, a call for it gave no snapshot, and
\* the entry is still there.
C18_Witness ==
    /\ op.kind = "getScriptSnapshot"
    /\ op.file = Undefined
    /\ op.ret = Undefined
    /\ op.script # Undefined
    /\ op.fileName \in DOMAIN scripts[op.program]
    /\ scripts[op.program][op.fileName] = op.script[1]

\* ------------------------------------------------- the hook slot
\* C19: a call that passes the validation ends with 'hook' exactly when it
\* started a hook; the slot then holds the program worked on, the index
\* started, which is the next index and lies from 0 up to the number of
\* hooks declared (excluded), and the hook's worker in flight; a call that
\* returns the program leaves the slot as it found it.
C19_HookSignalIffStarted ==
    [][\A options \in ValidOptions, oldProgram \in PriorPrograms :
         \A parsedHooks \in ParsedHooks(options, oldProgram) :
            Call(options, oldProgram, parsedHooks) =>
                LET p == op'.program[1] IN
                /\ op'.result = HookSignal <=> op'.startedHook # Undefined
                /\ op'.result = HookSignal =>
                      /\ state'.hook =
                            Some([program |-> p, index |-> op'.startedHook[1],
                                  worker |-> "pending"])
                      /\ op'.startedHook[1] = nextIndex(state.hook)
                      /\ op'.startedHook[1] >= 0
                      /\ op'.startedHook[1] < HookCount(ctx'[p])
                /\ op'.result # HookSignal =>
                      /\ op'.result = Returned
                      /\ state' = state
      ]_vars

\* The last hook of a program was started by a resume call that supplied
\* another program as the prior program.
C19_Witness ==
    /\ op.kind = "createProgram"
    /\ op.result = HookSignal
    /\ op.branch = "resume"
    /\ op.oldProgram # Undefined
    /\ op.oldProgram # op.program
    /\ op.startedHook = Some(MaxHooks - 1)
    /\ state.hook # Undefined
    /\ state.hook[1].index = MaxHooks - 1
    /\ state.hook[1].program = op.program[1]

\* ------------------------------------------------- what an entry records
\* C20: the projectVersion an entry records is never above the current
\* projectVersion of its context; an entry built by a call records the
\* projectVersion and the modification time of that call, with the snapshot
\* of the content read in it; and an entry returned without a read is the
\* entry found, left as it was: one reused by its modification time keeps
\* its older projectVersion.
C20_EntryRecordsReadTime ==
    /\ \A p \in DOMAIN scripts :
          \A f \in DOMAIN scripts[p] :
             /\ scripts[p][f].projectVersion <= getProjectVersion(ctx[p])
             /\ scripts[p][f].scriptSnapshot = fromString(scripts[p][f].version)
    /\ op.kind = "getScriptSnapshot" =>
          /\ op.readFile.kind = "content" =>
                LET e == scripts[op.program][op.fileName] IN
                /\ op.ret = Some(e)
                /\ e.projectVersion = op.projectVersion
                /\ e.modifiedTime = TimeSeen(op.file)
                /\ e.scriptSnapshot = fromString(op.file[1].content)
          /\ (op.ret # Undefined /\ op.readFile = NotRead) =>
                /\ op.ret = op.script
                /\ scripts[op.program][op.fileName] = op.script[1]
                /\ op.stat =>
                      /\ op.ret[1].projectVersion < op.projectVersion
                      /\ op.ret[1].modifiedTime = TimeSeen(op.file)

\* An entry recorded at version 0 was reused by its modification time at
\* the highest version, after the file's content had changed under it.
C20_Witness ==
    /\ op.kind = "getScriptSnapshot"
    /\ op.stat
    /\ op.readFile = NotRead
    /\ op.ret # Undefined
    /\ op.ret[1].projectVersion = 0
    /\ op.projectVersion = MaxVersion
    /\ op.file # Undefined
    /\ op.ret[1].scriptSnapshot # fromString(op.file[1].content)

====
